---- MODULE Spec2Model ----
(***************************************************************************)
(* ScrollablePane (prompt_toolkit/layout/scrollable_pane.py).              *)
(*                                                                         *)
(* A pane renders its content on a virtual screen that is at least as      *)
(* high as the content prefers, decides which vertical slice of it is      *)
(* shown (vertical_scroll, kept from frame to frame), and copies that      *)
(* slice to the real screen.  One render pass is one call of               *)
(* write_to_screen; _make_window_visible is the scroll resolver it calls.  *)
(***************************************************************************)
EXTENDS Integers, Sequences, FiniteSets

\* Bounds of the model.
MaxPreferred == 4   \* content.preferred_height(...).preferred is in 0..MaxPreferred
MaxHeight == 3      \* write_position.height is in 0..MaxHeight
MaxOffset == 1      \* scroll_offsets.top and .bottom are in 0..MaxOffset
MaxOrigin == 1      \* write_position.xpos and .ypos are 0 or MaxOrigin
MaxWidth == 2       \* write_position.width is 1 or MaxWidth

VARIABLES
    scroll_offsets,                \* self.scroll_offsets: [top, bottom]
    keep_cursor_visible,           \* self.keep_cursor_visible()
    keep_focused_window_visible,   \* self.keep_focused_window_visible()
    max_available_height,          \* self.max_available_height
    vertical_scroll,               \* self.vertical_scroll
    pc,                            \* "idle": between two passes; "rendered": a pass has returned
    write_position,                \* argument of the last pass: [xpos, ypos, width, height]
    virtual_height,                \* local of the last pass
    focused_here,                  \* the focused window was found on the temp screen
    visible_win_write_pos,         \* its WritePosition on the temp screen: [ypos, height]
    cursor_position,               \* its cursor row on the temp screen: <<>> (None) or <<y>>
    entry_scroll,                  \* self.vertical_scroll when the last pass was entered
    screen                         \* the real screen after the last pass

vars == <<scroll_offsets, keep_cursor_visible, keep_focused_window_visible,
          max_available_height, vertical_scroll, pc, write_position,
          virtual_height, focused_here, visible_win_write_pos, cursor_position,
          entry_scroll, screen>>

\* Python's max and min of two integers.
Max(a, b) == IF a >= b THEN a ELSE b
Min(a, b) == IF a <= b THEN a ELSE b

\* cursor_position is None
NoCursor == <<>>

----------------------------------------------------------------------------
\* The scroll resolver: _make_window_visible.

\* Start with the maximum allowed scroll range.
FullRange(visible_height, virt_height) ==
    [min_scroll |-> 0, max_scroll |-> virt_height - visible_height]

\* CursorBounds with the "+ 1" of cpos_min_scroll left out.
CursorBoundsOffByOne(cy, offsets, visible_height) ==
    [lo |-> cy - visible_height + offsets.bottom,
     hi |-> cy - offsets.top]

\* cpos_min_scroll and cpos_max_scroll for a cursor on row cy.
CursorBounds(cy, offsets, visible_height) ==
    [lo |-> cy - visible_height + 1 + offsets.bottom,
     hi |-> cy - offsets.top]

\* CursorRange without the max(0, ...) around the new max_scroll.
CursorRangeNoFloor(range, kcv, cursor, offsets, visible_height) ==
    IF kcv /\ cursor # NoCursor
    THEN LET c == CursorBounds(cursor[1], offsets, visible_height)
         IN  [min_scroll |-> Max(range.min_scroll, c.lo),
              max_scroll |-> Min(range.max_scroll, c.hi)]
    ELSE range

\* Reduce min/max scroll according to the cursor in the focused window.
CursorRange(range, kcv, cursor, offsets, visible_height) ==
    IF kcv /\ cursor # NoCursor
    THEN LET c == CursorBounds(cursor[1], offsets, visible_height)
         IN  [min_scroll |-> Max(range.min_scroll, c.lo),
              max_scroll |-> Max(0, Min(range.max_scroll, c.hi))]
    ELSE range

\* window_min_scroll and window_max_scroll of the focused window.
WindowBounds(win, visible_height) ==
    IF win.height <= visible_height
    THEN [lo |-> win.ypos + win.height - visible_height, hi |-> win.ypos]
    ELSE [lo |-> win.ypos, hi |-> win.ypos + win.height - visible_height]

\* Reduce min/max scroll according to the focused window position.
WindowRange(range, kfw, win, visible_height) ==
    IF kfw
    THEN LET w == WindowBounds(win, visible_height)
         IN  [min_scroll |-> Max(range.min_scroll, w.lo),
              max_scroll |-> Min(range.max_scroll, w.hi)]
    ELSE range

\* if min_scroll > max_scroll: min_scroll = max_scroll
Collapse(range) ==
    IF range.min_scroll > range.max_scroll
    THEN [range EXCEPT !.min_scroll = range.max_scroll]
    ELSE range

\* min_scroll and max_scroll as they stand before the collapse.
IntersectedRange(visible_height, virt_height, win, cursor, kcv, kfw, offsets) ==
    WindowRange(
        CursorRange(FullRange(visible_height, virt_height),
                    kcv, cursor, offsets, visible_height),
        kfw, win, visible_height)

\* min_scroll and max_scroll as they stand before the final clip.
ScrollRange(visible_height, virt_height, win, cursor, kcv, kfw, offsets) ==
    Collapse(IntersectedRange(visible_height, virt_height, win, cursor,
                              kcv, kfw, offsets))

\* Clip with the two bounds assigned the wrong way round.
ClipToWrongBound(scroll, range) ==
    LET s1 == IF scroll > range.max_scroll THEN range.min_scroll ELSE scroll
    IN  IF s1 < range.min_scroll THEN range.max_scroll ELSE s1

\* Finally, properly clip the vertical scroll.
Clip(scroll, range) ==
    LET s1 == IF scroll > range.max_scroll THEN range.max_scroll ELSE scroll
    IN  IF s1 < range.min_scroll THEN range.min_scroll ELSE s1

\* self.vertical_scroll after _make_window_visible.
MakeWindowVisible(scroll, visible_height, virt_height, win, cursor, kcv, kfw, offsets) ==
    Clip(scroll,
         ScrollRange(visible_height, virt_height, win, cursor, kcv, kfw, offsets))

----------------------------------------------------------------------------
\* The render pass: write_to_screen.

\* Ensure virtual height is at least the available height, then cap it.
VirtualHeight(preferred, height, max_available) ==
    Min(Max(preferred, height), max_available)

\* ScrollAfterLookup with the scroll set back to 0 when no window is found.
ScrollAfterLookupReset(scroll, found, visible_height, virt_height, win, cursor, kcv, kfw, offsets) ==
    IF found
    THEN MakeWindowVisible(scroll, visible_height, virt_height, win, cursor,
                           kcv, kfw, offsets)
    ELSE 0

\* The look-up of the focused window on the temp screen: resolve when it is
\* there, keep the scroll otherwise.
ScrollAfterLookup(scroll, found, visible_height, virt_height, win, cursor, kcv, kfw, offsets) ==
    IF found
    THEN MakeWindowVisible(scroll, visible_height, virt_height, win, cursor,
                           kcv, kfw, offsets)
    ELSE scroll

\* Char(char=" ", style=parent_style), the default of a Screen's data_buffer.
DefaultChar == <<>>

\* temp_screen.data_buffer[y][x] after the content has been written at
\* WritePosition(0, 0, virtual_width, virtual_height): the content puts a
\* character of its own on every cell of that rectangle (written <<x, y>>,
\* so that no two cells look alike); every other cell reads as the default.
TempChar(x, y, virt_width, virt_height) ==
    IF x \in 0..(virt_width - 1) /\ y \in 0..(virt_height - 1)
    THEN <<x, y>>
    ELSE DefaultChar

\* The cells of the real screen that the model keeps.
ScreenCols == 0..(MaxOrigin + MaxWidth - 1)
ScreenRows == 0..(MaxOrigin + MaxHeight - 1)

\* The screen handed to a pass: nothing written on it yet.
BlankScreen ==
    [data_buffer |-> [p \in ScreenCols \X ScreenRows |-> DefaultChar],
     width |-> 0,
     height |-> 0,
     visible_win_ypos |-> <<>>,
     cursor_y |-> <<>>]

\* CopyCell reading temp_screen.data_buffer[y], the scroll left out.
CopyCellNoScroll(buf, x, y, wp, scroll, virt_height) ==
    [buf EXCEPT ![<<x + wp.xpos, y + wp.ypos>>] =
        TempChar(x, y, wp.width, virt_height)]

\* row[x + xpos] = temp_row[x], with temp_row = temp_screen.data_buffer[y + self.vertical_scroll]
\* and row = screen.data_buffer[y + ypos].
CopyCell(buf, x, y, wp, scroll, virt_height) ==
    [buf EXCEPT ![<<x + wp.xpos, y + wp.ypos>>] =
        TempChar(x, y + scroll, wp.width, virt_height)]

\* for x in range(write_position.width), from column x on.
RECURSIVE CopyRow(_, _, _, _, _, _)
CopyRow(buf, x, y, wp, scroll, virt_height) ==
    IF x >= wp.width
    THEN buf
    ELSE CopyRow(CopyCell(buf, x, y, wp, scroll, virt_height),
                 x + 1, y, wp, scroll, virt_height)

\* for y in range(write_position.height), from row y on.
RECURSIVE CopyRows(_, _, _, _, _)
CopyRows(buf, y, wp, scroll, virt_height) ==
    IF y >= wp.height
    THEN buf
    ELSE CopyRows(CopyRow(buf, 0, y, wp, scroll, virt_height),
                  y + 1, wp, scroll, virt_height)

\* The real screen after the copy of the visible part and of the registries.
CopyToScreen(scr, wp, scroll, virt_height, found, win, cursor) ==
    [data_buffer |-> CopyRows(scr.data_buffer, 0, wp, scroll, virt_height),
     width |-> Max(scr.width, wp.xpos + wp.width),
     height |-> Max(scr.height, wp.ypos + wp.height),
     visible_win_ypos |->
        IF found THEN <<win.ypos + wp.ypos - scroll>> ELSE scr.visible_win_ypos,
     cursor_y |->
        IF found /\ cursor # NoCursor
        THEN <<cursor[1] + wp.ypos - scroll>>
        ELSE scr.cursor_y]

\* The window that is not there (focused_here is FALSE).
NoWindow == [ypos |-> 0, height |-> 0]

\* The write positions a window can get on a temp screen of this height.
WindowsOn(virt_height) ==
    {w \in [ypos : 0..virt_height, height : 0..virt_height] :
        w.ypos + w.height <= virt_height}

\* The cursor rows a window can report: none, or a row of the window.
CursorsOf(win) ==
    {NoCursor} \cup {<<cy>> : cy \in win.ypos..(win.ypos + win.height - 1)}

\* ScrollablePane.__init__: any offsets and policies; a max_available_height
\* that some viewport exceeds, or one that no virtual screen of the model
\* reaches (as the default of 10000 is for a terminal).
Init ==
    /\ scroll_offsets \in [top : 0..MaxOffset, bottom : 0..MaxOffset]
    /\ keep_cursor_visible \in BOOLEAN
    /\ keep_focused_window_visible \in BOOLEAN
    /\ max_available_height \in {MaxHeight - 1, MaxPreferred + MaxHeight}
    /\ vertical_scroll = 0
    /\ pc = "idle"
    /\ write_position = [xpos |-> 0, ypos |-> 0, width |-> 1, height |-> 0]
    /\ virtual_height = 0
    /\ focused_here = FALSE
    /\ visible_win_write_pos = NoWindow
    /\ cursor_position = NoCursor
    /\ entry_scroll = 0
    /\ screen = BlankScreen

\* One call of write_to_screen, from entry to return.
WriteToScreen ==
    /\ pc = "idle"
    /\ \E preferred \in 0..MaxPreferred,
          wp \in [xpos : {0, MaxOrigin}, ypos : {0, MaxOrigin},
                  width : {1, MaxWidth}, height : 0..MaxHeight],
          found \in BOOLEAN :
        LET vh == VirtualHeight(preferred, wp.height, max_available_height)
        IN  \E win \in (IF found THEN WindowsOn(vh) ELSE {NoWindow}) :
            \E cursor \in (IF found THEN CursorsOf(win) ELSE {NoCursor}) :
                LET scroll == ScrollAfterLookup(
                        vertical_scroll, found, wp.height, vh, win, cursor,
                        keep_cursor_visible, keep_focused_window_visible,
                        scroll_offsets)
                IN  /\ write_position' = wp
                    /\ virtual_height' = vh
                    /\ focused_here' = found
                    /\ visible_win_write_pos' = win
                    /\ cursor_position' = cursor
                    /\ entry_scroll' = vertical_scroll
                    /\ vertical_scroll' = scroll
                    /\ screen' = CopyToScreen(BlankScreen, wp, scroll, vh,
                                              found, win, cursor)
    /\ pc' = "rendered"
    /\ UNCHANGED <<scroll_offsets, keep_cursor_visible,
                   keep_focused_window_visible, max_available_height>>

\* The pass has returned and its locals are gone; the next redraw gets a
\* new screen.  self.vertical_scroll is all that the pane keeps.
NextFrame ==
    /\ pc = "rendered"
    /\ pc' = "idle"
    /\ write_position' = [xpos |-> 0, ypos |-> 0, width |-> 1, height |-> 0]
    /\ virtual_height' = 0
    /\ focused_here' = FALSE
    /\ visible_win_write_pos' = NoWindow
    /\ cursor_position' = NoCursor
    /\ entry_scroll' = vertical_scroll
    /\ screen' = BlankScreen
    /\ UNCHANGED <<scroll_offsets, keep_cursor_visible,
                   keep_focused_window_visible, max_available_height,
                   vertical_scroll>>

Next == WriteToScreen \/ NextFrame

Spec == Init /\ [][Next]_vars

----------------------------------------------------------------------------
\* What the last pass did, read from the state it left.

\* A pass has returned.
Rendered == pc = "rendered"

\* The pass found the focused window and called _make_window_visible.
Resolved == Rendered /\ focused_here

\* min_scroll and max_scroll of that call, before the collapse and after it.
PassIntersectedRange ==
    IntersectedRange(write_position.height, virtual_height,
                     visible_win_write_pos, cursor_position,
                     keep_cursor_visible, keep_focused_window_visible,
                     scroll_offsets)

PassScrollRange ==
    ScrollRange(write_position.height, virtual_height,
                visible_win_write_pos, cursor_position,
                keep_cursor_visible, keep_focused_window_visible,
                scroll_offsets)

\* The cursor of the focused window is shown, top and bottom offsets kept,
\* when the viewport starts at row s of the virtual screen.
CursorShownAt(s) ==
    /\ scroll_offsets.top <= cursor_position[1] - s
    /\ cursor_position[1] - s <= write_position.height - 1 - scroll_offsets.bottom

\* The focused window lies within the viewport that starts at row s.
WindowWithinViewportAt(s) ==
    /\ s <= visible_win_write_pos.ypos
    /\ visible_win_write_pos.ypos + visible_win_write_pos.height
            <= s + write_position.height

\* The viewport that starts at row s lies within the focused window.
ViewportWithinWindowAt(s) ==
    /\ visible_win_write_pos.ypos <= s
    /\ s + write_position.height
            <= visible_win_write_pos.ypos + visible_win_write_pos.height

\* The window-visibility requirement at row s, for a window of either kind.
WindowShownAt(s) ==
    IF visible_win_write_pos.height <= write_position.height
    THEN WindowWithinViewportAt(s)
    ELSE ViewportWithinWindowAt(s)

\* Every scroll position that can satisfy a requirement of the model's passes.
ScrollCandidates ==
    (0 - (MaxHeight + MaxOffset + 1))..(MaxPreferred + MaxHeight + MaxOffset + 1)

----------------------------------------------------------------------------
\* The claims.

\* C1: after every scroll resolution with virtual_height - visible_height >= 0,
\* 0 <= vertical_scroll <= virtual_height - visible_height.
C1_ScrollWithinBuffer ==
    (Resolved /\ virtual_height - write_position.height >= 0)
        => /\ 0 <= vertical_scroll
           /\ vertical_scroll <= virtual_height - write_position.height

\* C1 witness: a resolution that moved the scroll to the last position the
\* buffer allows, on a buffer higher than the viewport.
C1_Witness ==
    /\ Resolved
    /\ virtual_height > write_position.height
    /\ vertical_scroll # entry_scroll
    /\ vertical_scroll = virtual_height - write_position.height

\* C2 (as claimed): in every render pass the virtual height is at least the
\* viewport height, whatever max_available_height is configured.
C2_VirtualAtLeastVisible ==
    Rendered => virtual_height >= write_position.height

\* C3: a pass that does not find the focused window on the temp screen leaves
\* vertical_scroll equal to its value at entry.
C3_NoFocusKeepsScroll ==
    (Rendered /\ ~focused_here) => vertical_scroll = entry_scroll

\* C3 witness: such a pass entered with a scroll other than the initial 0, on
\* a viewport that no longer matches it.
C3_Witness ==
    /\ Rendered
    /\ ~focused_here
    /\ entry_scroll > 0
    /\ vertical_scroll = entry_scroll
    /\ write_position.height > 0

\* C4 (as claimed): with keep_focused_window_visible on and a focused window
\* no higher than the viewport, after resolution the whole window lies in the
\* viewport, for every previous scroll, cursor row and scroll_offsets (also
\* with keep_cursor_visible on).  Stated for a window of at least one row and
\* for passes whose virtual screen is at least as high as the viewport.
C4_SmallWindowContained ==
    ( /\ Resolved
      /\ virtual_height >= write_position.height
      /\ keep_focused_window_visible
      /\ visible_win_write_pos.height > 0
      /\ visible_win_write_pos.height <= write_position.height )
        => WindowWithinViewportAt(vertical_scroll)

\* C5 (as claimed): with a focused window higher than the viewport, after
\* resolution the viewport lies within the window, for every previous scroll,
\* cursor row and scroll_offsets.  Stated for the case the window policy
\* covers (keep_focused_window_visible on), for a viewport of at least one
\* row and for passes whose virtual screen is at least as high as the
\* viewport.
C5_LargeWindowContainsViewport ==
    ( /\ Resolved
      /\ virtual_height >= write_position.height
      /\ write_position.height > 0
      /\ keep_focused_window_visible
      /\ visible_win_write_pos.height > write_position.height )
        => ViewportWithinWindowAt(vertical_scroll)

\* C6 (as claimed): with keep_cursor_visible on and a known cursor row, after
\* resolution the cursor is shown with both offsets kept whenever that is
\* compatible with the window-visibility constraint, and always when
\* keep_focused_window_visible is off.  Stated for offsets that leave the
\* cursor a row of the viewport, and for passes whose virtual screen is at
\* least as high as the viewport.
C6_CursorShown_Original ==
    ( /\ Resolved
      /\ virtual_height >= write_position.height
      /\ keep_cursor_visible
      /\ cursor_position # NoCursor
      /\ \E s \in ScrollCandidates :
            /\ CursorShownAt(s)
            /\ keep_focused_window_visible => WindowShownAt(s) )
        => CursorShownAt(vertical_scroll)

\* C6 (amended): with keep_cursor_visible on and a known cursor row, after
\* resolution the cursor is shown with both offsets kept whenever some scroll
\* position of the buffer, 0..virtual_height - visible_height, shows it so and
\* (with keep_focused_window_visible on) meets the window-visibility
\* constraint as well.
C6_CursorShown ==
    ( /\ Resolved
      /\ keep_cursor_visible
      /\ cursor_position # NoCursor
      /\ \E s \in 0..(virtual_height - write_position.height) :
            /\ CursorShownAt(s)
            /\ keep_focused_window_visible => WindowShownAt(s) )
        => CursorShownAt(vertical_scroll)

\* C6 witness: both policies on, non-zero offsets, the requirements
\* compatible, and the resolution had to move the scroll to show the cursor.
C6_Witness ==
    /\ Resolved
    /\ keep_cursor_visible
    /\ keep_focused_window_visible
    /\ cursor_position # NoCursor
    /\ scroll_offsets.top > 0
    /\ scroll_offsets.bottom > 0
    /\ \E s \in 0..(virtual_height - write_position.height) :
            CursorShownAt(s) /\ WindowShownAt(s)
    /\ ~CursorShownAt(entry_scroll)
    /\ CursorShownAt(vertical_scroll)

\* C7 (as claimed): with both policies on and the cursor interval and the
\* window interval disjoint (min_scroll > max_scroll after the intersection),
\* the resulting vertical_scroll lies in the window interval clipped to
\* [0, virtual_height - visible_height]: the window constraint is the one
\* kept.  Stated for a viewport of at least one row and for passes whose
\* virtual screen is at least as high as the viewport.
C7_CollapseKeepsWindowBound ==
    LET c == CursorBounds(cursor_position[1], scroll_offsets, write_position.height)
        w == WindowBounds(visible_win_write_pos, write_position.height)
    IN  ( /\ Resolved
          /\ virtual_height >= write_position.height
          /\ write_position.height > 0
          /\ keep_cursor_visible
          /\ keep_focused_window_visible
          /\ cursor_position # NoCursor
          /\ c.hi < w.lo \/ w.hi < c.lo
          /\ PassIntersectedRange.min_scroll > PassIntersectedRange.max_scroll )
            => /\ Max(w.lo, 0) <= vertical_scroll
               /\ vertical_scroll <= Min(w.hi, virtual_height - write_position.height)

\* C8: the final clip leaves a scroll inside the resolved
\* [min_scroll, max_scroll] unchanged and moves one outside it to the nearer
\* bound; resolving again with the same inputs changes nothing.
C8_ClipIsStable ==
    Resolved =>
        LET r == PassScrollRange
        IN  /\ r.min_scroll <= r.max_scroll
            /\ vertical_scroll =
                    (IF entry_scroll < r.min_scroll THEN r.min_scroll
                     ELSE IF entry_scroll > r.max_scroll THEN r.max_scroll
                     ELSE entry_scroll)
            /\ MakeWindowVisible(vertical_scroll, write_position.height,
                                 virtual_height, visible_win_write_pos,
                                 cursor_position, keep_cursor_visible,
                                 keep_focused_window_visible, scroll_offsets)
                    = vertical_scroll

\* C8 witness: a resolution entered with a scroll above a proper range
\* (min_scroll < max_scroll), which it moved down to max_scroll.
C8_Witness ==
    /\ Resolved
    /\ PassScrollRange.min_scroll < PassScrollRange.max_scroll
    /\ entry_scroll > PassScrollRange.max_scroll
    /\ vertical_scroll = PassScrollRange.max_scroll

\* C9: after a pass with viewport W x H at (X, Y) and scroll S, the real cell
\* (X + x, Y + y) equals the virtual cell (x, y + S) for all x < W, y < H.
C9_CopyCorrect ==
    Rendered =>
        \A x \in 0..(write_position.width - 1),
           y \in 0..(write_position.height - 1) :
            screen.data_buffer[<<write_position.xpos + x, write_position.ypos + y>>]
                = TempChar(x, y + vertical_scroll,
                           write_position.width, virtual_height)

\* C9 witness: a pass scrolled down, drawn away from the screen's origin, on
\* a viewport of more than one row and column.
C9_Witness ==
    /\ Rendered
    /\ vertical_scroll > 0
    /\ write_position.xpos > 0
    /\ write_position.ypos > 0
    /\ write_position.width > 1
    /\ write_position.height > 1
    /\ vertical_scroll + write_position.height <= virtual_height

\* C10 (as claimed): in every pass of a sequence of passes, the rows the
\* copier reads, vertical_scroll .. vertical_scroll + height - 1, are rows of
\* that pass's virtual buffer, also when resolution is skipped and the
\* scroll of an earlier frame is reused.  Stated for a pane whose
\* max_available_height is not below any viewport height it is given, and
\* for passes that copy at least one row.
C10_CopiedRowsInBuffer ==
    ( /\ Rendered
      /\ max_available_height >= MaxHeight
      /\ write_position.height > 0 )
        => /\ 0 <= vertical_scroll
           /\ vertical_scroll + write_position.height <= virtual_height

====
